---- MODULE Spec2Model ----
(***************************************************************************)
(* The dicedb-go client (src/main.go): one Client struct shared by the     *)
(* application threads and the watch goroutines, the process-wide mutex    *)
(* mu, and the TCP connections the client dials.  Go strings are modelled  *)
(* as sequences of atoms, so that equality, strings.Contains,              *)
(* strings.TrimSpace and strings.Split are computed and not assumed.       *)
(***************************************************************************)
EXTENDS Integers, Sequences, FiniteSets, TLC

VARIABLES
  c,          \* the Client struct the application holds: id, conn, watchConn, watchCh
  created,    \* TRUE once NewClient has returned the Client to the application
  newErr,     \* the error of the last NewClient call that returned one (<<>>: none)
  conns,      \* every connection dialed so far, in dial order
  chans,      \* number of channels made by WatchCh
  mu,         \* holder of the process-wide mutex mu
  pc,         \* position of each thread / goroutine
  cmd,        \* the wire.Command the thread is firing
  result,     \* the thread's local result (Fire) or resp/err (watch)
  nc,         \* the Client built by NewClient inside getOrCreateClient
  wloc,       \* watch goroutine locals: the evaluated c.watchConn and c.watchCh
  panicked,   \* the process has died of a panic
  call,       \* history: what the application call in progress has observed
  hist        \* history: identity at creation, Close calls, WatchCh returns, deliveries

vars == <<c, created, newErr, conns, chans, mu, pc, cmd, result, nc, wloc,
          panicked, call, hist>>

----------------------------------------------------------------------------
\* Bounds of the model.
MaxConns == 4      \* connections dialed in one behaviour
MaxFaults == 2     \* transport faults the network injects
MaxPush == 2       \* Results the server pushes on watch connections
MaxChans == 2      \* channels made by WatchCh (and goroutines started)
MaxTextLen == 4    \* length of a FireString input

----------------------------------------------------------------------------
\* Values.
Nil == 0
NoOne == "none"
EmptyStr == <<>>

App == {"main", "t2"}
TaskOf(n) == "w" \o ToString(n)
Tasks == {TaskOf(n) : n \in 1..MaxChans}
Procs == App \cup Tasks

NoClient == [id |-> EmptyStr, conn |-> Nil, watchConn |-> Nil, watchCh |-> Nil]
NoCmd == [Cmd |-> EmptyStr, Args |-> <<>>]
NoResult == [Status |-> "nil", Message |-> EmptyStr]
NoCall == [active |-> FALSE, n0 |-> 0, pre |-> NoClient, first |-> NoResult,
           via |-> Nil, cAt |-> NoClient, nAt |-> 0, dialFailed |-> FALSE,
           hsFailed |-> FALSE, hsDone |-> 0, text |-> EmptyStr]

OK(msg) == [Status |-> "OK", Message |-> msg]
ERR(msg) == [Status |-> "ERR", Message |-> msg]

\* uuid.New().String(): a value no earlier call returned; k is the number of
\* the connection the new Client was dialed on.
NewUuid(k) == <<"uuid-" \o ToString(k)>>
CallerIds == {<<"alice">>}

\* Error texts.
EOFText == <<"EOF">>
EPIPEText == <<"broken", " ", "pipe">>
UnexpectedEOFText == <<"unexpected", " ", "EOF">>
WriteEPIPEText == <<"write", " ", "tcp", ":", " ">> \o EPIPEText
ClosedConnText == <<"use", " ", "of", " ", "closed", " ", "network", " ", "connection">>
ServerErrText == <<"ERR", " ", "unknown", " ", "command">>
HandshakeRejectText == <<"ERR", " ", "handshake", " ", "rejected">>
DialErrText == <<"dial", " ", "tcp", ":", " ", "connection", " ", "refused">>
HandshakeErrPrefix == <<"could not complete the handshake: ">>

HandshakeCmd(id, role) == [Cmd |-> <<"HANDSHAKE">>, Args |-> <<id, <<role>>>>]
IsHandshake(command) == command.Cmd = <<"HANDSHAKE">>

\* strings.Contains
Contains(s, sub) ==
  \E i \in 0..(Len(s) - Len(sub)) : SubSeq(s, i + 1, i + Len(sub)) = sub

\* The condition of checkAndReconnect.
RecoverableLoose(err) == Contains(err, EOFText) \/ Contains(err, EPIPEText)
Recoverable(err) == err = EOFText \/ Contains(err, EPIPEText)

----------------------------------------------------------------------------
\* The network and the server.

\* net.DialTimeout: a fresh open connection
NewConn(role, ch) ==
  [open |-> TRUE, net |-> "ok", dialedFor |-> role, ch |-> ch,
   hs |-> <<>>, inq |-> <<>>, rd |-> <<>>]

NetFaults == {"eof", "epipe", "trunc"}
Faults == Cardinality({k \in 1..Len(conns) : conns[k].net # "ok"})

\* What the server answers to a command it receives.
ServerReplies(command) ==
  IF IsHandshake(command)
  THEN {OK(<<"OK">>), ERR(HandshakeRejectText)}
  ELSE {OK(<<"OK">>), ERR(ServerErrText)}

\* The server has received command on connection k and answered r.
Served(k, command, r) ==
  IF IsHandshake(command)
  THEN [conns EXCEPT ![k].hs = Append(@, [args |-> command.Args, status |-> r.Status])]
  ELSE conns

\* c.fire(cmd, co): every outcome of one write and one read on connection k,
\* as the Result returned and the connections afterwards.
FireOutcomes(command, k) ==
  IF ~conns[k].open THEN {[res |-> ERR(ClosedConnText), cs |-> conns]}
  ELSE IF conns[k].net = "epipe" THEN {[res |-> ERR(WriteEPIPEText), cs |-> conns]}
  ELSE IF conns[k].net = "eof" THEN {[res |-> ERR(EOFText), cs |-> conns]}
  ELSE IF conns[k].net = "trunc" THEN {[res |-> ERR(UnexpectedEOFText), cs |-> conns]}
  ELSE {[res |-> r, cs |-> Served(k, command, r)] : r \in ServerReplies(command)}

\* The network breaks connection k.
Sever(k) ==
  /\ ~panicked
  /\ conns[k].net = "ok"
  /\ Faults < MaxFaults
  /\ \E f \in NetFaults : conns' = [conns EXCEPT ![k].net = f]
  /\ UNCHANGED <<c, created, newErr, chans, mu, pc, cmd, result, nc, wloc,
                 panicked, call, hist>>

----------------------------------------------------------------------------
\* NewClient

\* The identity of a new Client: the WithID option, else a fresh uuid.
NewClientId(opt, k) == IF opt = EmptyStr THEN NewUuid(k) ELSE opt

\* The options getOrCreateClient passes to NewClient: none.
ReconnectOpt(old) == EmptyStr

\* NewClient up to the call of client.Fire: dial, apply the options, choose the id.
NewClientCall ==
  /\ ~panicked
  /\ pc["main"] = "start"
  /\ \/ /\ Len(conns) < MaxConns
        /\ \E opt \in {EmptyStr} \cup CallerIds :
             LET k == Len(conns) + 1
                 cl == [NoClient EXCEPT !.conn = k, !.id = NewClientId(opt, k)]
             IN /\ conns' = Append(conns, NewConn("command", Nil))
                /\ c' = cl
                /\ cmd' = [cmd EXCEPT !["main"] = HandshakeCmd(cl.id, "command")]
                /\ call' = [call EXCEPT !["main"] =
                              [NoCall EXCEPT !.active = TRUE, !.n0 = k, !.pre = cl]]
                /\ hist' = [hist EXCEPT !.conn0 = k]
                /\ pc' = [pc EXCEPT !["main"] = "fire"]
                /\ newErr' = EmptyStr
     \/ \* newConn fails: NewClient returns the dial error
        /\ newErr' = DialErrText
        /\ pc' = [pc EXCEPT !["main"] = "newret"]
        /\ UNCHANGED <<c, conns, cmd, call, hist>>
  /\ UNCHANGED <<created, chans, mu, result, nc, wloc, panicked>>

----------------------------------------------------------------------------
\* Fire

\* The application calls c.Fire(cmd).
FireCall(p) ==
  /\ ~panicked
  /\ created
  /\ pc[p] = "idle"
  /\ cmd' = [cmd EXCEPT ![p] = [Cmd |-> <<"PING">>, Args |-> <<>>]]
  /\ call' = [call EXCEPT ![p] =
                [NoCall EXCEPT !.active = TRUE, !.n0 = Len(conns), !.pre = c]]
  /\ pc' = [pc EXCEPT ![p] = "fire"]
  /\ UNCHANGED <<c, created, newErr, conns, chans, mu, result, nc, wloc,
                 panicked, hist>>

\* Where Fire goes after c.fire returned res.
AfterFire(res) ==
  IF res.Status = "ERR" /\ Recoverable(res.Message) THEN "lock" ELSE "ret"

\* result := c.fire(cmd, c.conn), and the test of the result.
FireExchange(p) ==
  /\ ~panicked
  /\ pc[p] = "fire"
  /\ \E o \in FireOutcomes(cmd[p], c.conn) :
       /\ conns' = o.cs
       /\ result' = [result EXCEPT ![p] = o.res]
       /\ call' = [call EXCEPT ![p].via = c.conn,
                               ![p].cAt = c,
                               ![p].nAt = Len(conns),
                               ![p].first = IF @ = NoResult THEN o.res ELSE @]
       /\ pc' = [pc EXCEPT ![p] = AfterFire(o.res)]
  /\ UNCHANGED <<c, created, newErr, chans, mu, cmd, nc, wloc, panicked, hist>>

----------------------------------------------------------------------------
\* checkAndReconnect and getOrCreateClient, run by Fire and by watch

\* mu.Lock()
Lock(p) ==
  /\ ~panicked
  /\ pc[p] = "lock"
  /\ mu = NoOne
  /\ mu' = p
  /\ pc' = [pc EXCEPT ![p] = "dial"]
  /\ UNCHANGED <<c, created, newErr, conns, chans, cmd, result, nc, wloc,
                 panicked, call, hist>>

\* The reconnect failed: getOrCreateClient returns the error (the deferred
\* mu.Unlock() runs) and checkAndReconnect returns false. Fire then returns its
\* result; watch panics.
ReconnectFailed(p) ==
  /\ mu' = NoOne
  /\ nc' = [nc EXCEPT ![p] = NoClient]
  /\ IF p \in App
     THEN pc' = [pc EXCEPT ![p] = "ret"] /\ UNCHANGED panicked
     ELSE panicked' = TRUE /\ UNCHANGED pc

\* NewClient(c.host, c.port) inside getOrCreateClient, up to its client.Fire
DialNew(p) ==
  /\ ~panicked
  /\ pc[p] = "dial"
  /\ \/ /\ Len(conns) < MaxConns
        /\ LET k == Len(conns) + 1
           IN /\ conns' = Append(conns, NewConn("command", Nil))
              /\ nc' = [nc EXCEPT ![p] =
                          [NoClient EXCEPT !.conn = k,
                                           !.id = NewClientId(ReconnectOpt(c), k)]]
        /\ pc' = [pc EXCEPT ![p] = "hs"]
        /\ UNCHANGED <<mu, panicked, call>>
     \/ /\ ReconnectFailed(p)
        /\ call' = [call EXCEPT ![p].dialFailed = TRUE]
        /\ UNCHANGED conns
  /\ UNCHANGED <<c, created, newErr, chans, cmd, result, wloc, hist>>

\* Where the handshake Fire of the new Client goes after its c.fire returned
\* res: into checkAndReconnect and getOrCreateClient again ("relock", with mu
\* held), back to NewClient with an ERR Result ("fail"), or on ("closeold").
AfterHandshake(res) ==
  IF res.Status = "ERR"
  THEN IF Recoverable(res.Message) THEN "relock" ELSE "fail"
  ELSE "closeold"

\* client.Fire(HANDSHAKE [id, "command"]) of the new Client, with mu held
Handshake(p) ==
  /\ ~panicked
  /\ pc[p] = "hs"
  /\ \E o \in FireOutcomes(HandshakeCmd(nc[p].id, "command"), nc[p].conn) :
       /\ conns' = o.cs
       /\ call' = [call EXCEPT ![p].hsDone = @ + 1,
                               ![p].hsFailed = (o.res.Status = "ERR")]
       /\ IF AfterHandshake(o.res) = "fail"
          THEN ReconnectFailed(p)
          ELSE /\ pc' = [pc EXCEPT ![p] = AfterHandshake(o.res)]
               /\ UNCHANGED <<mu, nc, panicked>>
  /\ UNCHANGED <<c, created, newErr, chans, cmd, result, wloc, hist>>

\* c.conn.Close() of the old connection, return, and the deferred mu.Unlock()
CloseOld(p) ==
  /\ ~panicked
  /\ pc[p] = "closeold"
  /\ conns' = IF c.conn # Nil THEN [conns EXCEPT ![c.conn].open = FALSE] ELSE conns
  /\ mu' = NoOne
  /\ pc' = [pc EXCEPT ![p] = "install"]
  /\ UNCHANGED <<c, created, newErr, chans, cmd, result, nc, wloc, panicked,
                 call, hist>>

\* *c = *nc: every field of the Client is overwritten. The copy is taken as
\* one step: a thread reading a field sees it as before or as after the copy.
InstalledNowhere(old, new) == old
Installed(old, new) == new

\* *c = *nc in checkAndReconnect, which returns true: Fire calls c.Fire(cmd)
\* again, watch goes on to its send.
Install(p) ==
  /\ ~panicked
  /\ pc[p] = "install"
  /\ c' = Installed(c, nc[p])
  /\ nc' = [nc EXCEPT ![p] = NoClient]
  /\ pc' = [pc EXCEPT ![p] = IF p \in App THEN "fire" ELSE "evalch"]
  /\ UNCHANGED <<created, newErr, conns, chans, mu, cmd, result, wloc, panicked,
                 call, hist>>

\* The error NewClient returns for the handshake Result res (none: <<>>)
HandshakeErrorNoMessage(res) ==
  IF res.Status = "ERR" THEN HandshakeErrPrefix ELSE EmptyStr
HandshakeError(res) ==
  IF res.Status = "ERR" THEN HandshakeErrPrefix \o res.Message ELSE EmptyStr

\* Fire returns result. The Fire of NewClient returns into NewClient, which
\* returns the Client or the handshake error.
FireReturn(p) ==
  /\ ~panicked
  /\ pc[p] = "ret"
  /\ IF ~created
     THEN /\ newErr' = HandshakeError(result[p])
          /\ created' = (HandshakeError(result[p]) = EmptyStr)
          /\ pc' = [pc EXCEPT ![p] = "newret"]
          /\ hist' = [hist EXCEPT !.id0 = c.id]
          /\ UNCHANGED <<cmd, result, call>>
     ELSE /\ pc' = [pc EXCEPT ![p] = "idle"]
          /\ cmd' = [cmd EXCEPT ![p] = NoCmd]
          /\ result' = [result EXCEPT ![p] = NoResult]
          /\ call' = [call EXCEPT ![p] = NoCall]
          /\ UNCHANGED <<created, newErr, hist>>
  /\ UNCHANGED <<c, conns, chans, mu, nc, wloc, panicked>>

\* NewClient has returned: the application holds the Client, or nothing.
NewClientReturn ==
  /\ ~panicked
  /\ pc["main"] = "newret"
  /\ pc' = [pc EXCEPT !["main"] = IF created THEN "idle" ELSE "failed"]
  /\ c' = IF created THEN c ELSE NoClient
  /\ cmd' = [cmd EXCEPT !["main"] = NoCmd]
  /\ result' = [result EXCEPT !["main"] = NoResult]
  /\ call' = [call EXCEPT !["main"] = NoCall]
  /\ UNCHANGED <<created, newErr, conns, chans, mu, nc, wloc, panicked, hist>>

\* c.Close()
Close ==
  /\ ~panicked
  /\ created
  /\ pc["main"] = "idle"
  /\ conns' = [conns EXCEPT ![c.conn].open = FALSE]
  /\ hist' = [hist EXCEPT !.closed = TRUE]
  /\ UNCHANGED <<c, created, newErr, chans, mu, pc, cmd, result, nc, wloc,
                 panicked, call>>

----------------------------------------------------------------------------
\* FireString

IsSpace(ch) == ch \in {" ", "\t", "\n"}

RECURSIVE TrimLeft(_)
TrimLeft(s) == IF s # <<>> /\ IsSpace(Head(s)) THEN TrimLeft(Tail(s)) ELSE s

RECURSIVE TrimRight(_)
TrimRight(s) ==
  IF s # <<>> /\ IsSpace(s[Len(s)]) THEN TrimRight(SubSeq(s, 1, Len(s) - 1)) ELSE s

\* strings.TrimSpace
TrimSpace(s) == TrimRight(TrimLeft(s))

\* strings.Split(s, " ")
RECURSIVE Split(_)
Split(s) ==
  IF \A i \in 1..Len(s) : s[i] # " "
  THEN <<s>>
  ELSE LET i == CHOOSE j \in 1..Len(s) : s[j] = " " /\ \A m \in 1..(j - 1) : s[m] # " "
       IN <<SubSeq(s, 1, i - 1)>> \o Split(SubSeq(s, i + 1, Len(s)))

\* The Command FireString builds from cmdStr
FireStringCmd(cmdStr) ==
  LET tokens == Split(TrimSpace(cmdStr))
  IN [Cmd |-> tokens[1],
      Args |-> IF Len(tokens) > 1 THEN Tail(tokens) ELSE <<>>]

\* The application calls c.FireString(text) with a text of T: FireString
\* builds the Command and calls c.Fire.
FireStringCall(p, T) ==
  /\ ~panicked
  /\ created
  /\ pc[p] = "idle"
  /\ \E text \in T :
       /\ cmd' = [cmd EXCEPT ![p] = FireStringCmd(text)]
       /\ call' = [call EXCEPT ![p] =
                     [NoCall EXCEPT !.active = TRUE, !.n0 = Len(conns), !.pre = c,
                                    !.text = text]]
  /\ pc' = [pc EXCEPT ![p] = "fire"]
  /\ UNCHANGED <<c, created, newErr, conns, chans, mu, result, nc, wloc,
                 panicked, hist>>

----------------------------------------------------------------------------
\* WatchCh and watch

\* WatchCh up to its c.fire: the test of c.watchCh, make(chan), newConn
WatchChCall ==
  /\ ~panicked
  /\ created
  /\ pc["main"] = "idle"
  /\ \/ /\ c.watchCh # Nil
        /\ hist' = [hist EXCEPT !.watchRets = @ \cup {c.watchCh}]
        /\ UNCHANGED <<c, conns, chans, pc>>
     \/ /\ c.watchCh = Nil
        /\ chans < MaxChans
        /\ chans' = chans + 1
        /\ \/ /\ Len(conns) < MaxConns
              /\ conns' = Append(conns, NewConn("watch", chans + 1))
              /\ c' = [c EXCEPT !.watchCh = chans + 1, !.watchConn = Len(conns) + 1]
              /\ pc' = [pc EXCEPT !["main"] = "whs"]
           \/ \* newConn fails: WatchCh returns nil and the dial error
              /\ c' = [c EXCEPT !.watchCh = chans + 1, !.watchConn = Nil]
              /\ UNCHANGED <<conns, pc>>
        /\ UNCHANGED hist
  /\ UNCHANGED <<created, newErr, mu, cmd, result, nc, wloc, panicked, call>>

\* The goroutine go c.watch() starts: the first that is not running
Spawn == TaskOf(1 + Cardinality({p \in Tasks : pc[p] # "off"}))

\* The handshake of WatchCh on c.watchConn, go c.watch(), and the return
WatchChHandshake ==
  /\ ~panicked
  /\ pc["main"] = "whs"
  /\ IF c.watchConn = Nil
     THEN \* c.fire writes to a nil net.Conn
          /\ panicked' = TRUE
          /\ UNCHANGED <<conns, pc, hist>>
     ELSE /\ UNCHANGED panicked
          /\ \E o \in FireOutcomes(HandshakeCmd(c.id, "watch"), c.watchConn) :
               /\ conns' = o.cs
               /\ IF o.res.Status = "ERR"
                  THEN /\ pc' = [pc EXCEPT !["main"] = "idle"]
                       /\ UNCHANGED hist
                  ELSE /\ pc' = [pc EXCEPT !["main"] = "idle", ![Spawn] = "evalconn"]
                       /\ hist' = [hist EXCEPT !.watchRets = @ \cup {c.watchCh}]
  /\ UNCHANGED <<c, created, newErr, chans, mu, cmd, result, nc, wloc, call>>

\* watch evaluates c.watchConn for ironhawk.Read
WatchEvalConn(p) ==
  /\ ~panicked
  /\ pc[p] = "evalconn"
  /\ wloc' = [wloc EXCEPT ![p].conn = c.watchConn]
  /\ IF c.watchConn = Nil
     THEN panicked' = TRUE /\ UNCHANGED pc
     ELSE pc' = [pc EXCEPT ![p] = "read"] /\ UNCHANGED panicked
  /\ UNCHANGED <<c, created, newErr, conns, chans, mu, cmd, result, nc, call, hist>>

\* The error text of a failed read on a connection in state cn
ReadErrText(cn) ==
  IF ~cn.open THEN ClosedConnText
  ELSE IF cn.net = "trunc" THEN UnexpectedEOFText
  ELSE EOFText

\* resp, err := ironhawk.Read(...) returns, and the test of err
WatchRead(p) ==
  /\ ~panicked
  /\ pc[p] = "read"
  /\ LET k == wloc[p].conn
     IN \/ /\ conns[k].open
           /\ conns[k].inq # <<>>
           /\ conns' = [conns EXCEPT ![k].inq = Tail(@),
                                     ![k].rd = Append(@, Head(conns[k].inq))]
           /\ result' = [result EXCEPT ![p] = Head(conns[k].inq)]
           /\ pc' = [pc EXCEPT ![p] = "evalch"]
           /\ UNCHANGED panicked
        \/ /\ ~conns[k].open \/ (conns[k].inq = <<>> /\ conns[k].net # "ok")
           /\ result' = [result EXCEPT ![p] = ERR(ReadErrText(conns[k]))]
           /\ IF Recoverable(ReadErrText(conns[k]))
              THEN pc' = [pc EXCEPT ![p] = "lock"] /\ UNCHANGED panicked
              ELSE panicked' = TRUE /\ UNCHANGED pc
           /\ UNCHANGED conns
  /\ UNCHANGED <<c, created, newErr, chans, mu, cmd, nc, wloc, call, hist>>

\* watch evaluates c.watchCh for its send; a send on a nil channel blocks for ever
WatchEvalCh(p) ==
  /\ ~panicked
  /\ pc[p] = "evalch"
  /\ wloc' = [wloc EXCEPT ![p].ch = c.watchCh]
  /\ pc' = [pc EXCEPT ![p] = IF c.watchCh = Nil THEN "blocked" ELSE "push"]
  /\ UNCHANGED <<c, created, newErr, conns, chans, mu, cmd, result, nc, panicked,
                 call, hist>>

\* The value of resp: nil when Read returned an error
Resp(res) == IF res.Status = "ERR" THEN NoResult ELSE res

\* c.watchCh <- resp completes: the consumer receives from the channel, which
\* it can only do on a channel that WatchCh returned to it
WatchSend(p) ==
  /\ ~panicked
  /\ pc[p] = "push"
  /\ wloc[p].ch \in hist.watchRets
  /\ hist' = [hist EXCEPT !.delivered[wloc[p].ch] = Append(@, Resp(result[p]))]
  /\ result' = [result EXCEPT ![p] = NoResult]
  /\ wloc' = [wloc EXCEPT ![p] = [conn |-> Nil, ch |-> Nil]]
  /\ pc' = [pc EXCEPT ![p] = "evalconn"]
  /\ UNCHANGED <<c, created, newErr, conns, chans, mu, cmd, nc, panicked, call>>

\* The server pushes its next Result on a connection handshaken for watch
ServerPush(k) ==
  /\ ~panicked
  /\ conns[k].open /\ conns[k].net = "ok"
  /\ conns[k].hs # <<>>
  /\ conns[k].hs[Len(conns[k].hs)].args[2] = <<"watch">>
  /\ conns[k].hs[Len(conns[k].hs)].status = "OK"
  /\ hist.pushed < MaxPush
  /\ hist' = [hist EXCEPT !.pushed = @ + 1]
  /\ conns' = [conns EXCEPT ![k].inq =
                  Append(@, OK(<<"push-" \o ToString(hist.pushed + 1)>>))]
  /\ UNCHANGED <<c, created, newErr, chans, mu, pc, cmd, result, nc, wloc,
                 panicked, call>>

----------------------------------------------------------------------------
\* Specifications

Init ==
  /\ c = NoClient
  /\ created = FALSE
  /\ newErr = EmptyStr
  /\ conns = <<>>
  /\ chans = 0
  /\ mu = NoOne
  /\ pc = [p \in Procs |-> IF p = "main" THEN "start" ELSE IF p \in App THEN "idle" ELSE "off"]
  /\ cmd = [p \in App |-> NoCmd]
  /\ result = [p \in Procs |-> NoResult]
  /\ nc = [p \in Procs |-> NoClient]
  /\ wloc = [p \in Tasks |-> [conn |-> Nil, ch |-> Nil]]
  /\ panicked = FALSE
  /\ call = [p \in Procs |-> NoCall]
  /\ hist = [id0 |-> EmptyStr, conn0 |-> Nil, closed |-> FALSE, watchRets |-> {},
             delivered |-> [ch \in 1..MaxChans |-> <<>>], pushed |-> 0]

\* The texts the application passes to FireString
Alphabet == {"a", "b", " ", "\t"}
Texts == UNION {[1..n -> Alphabet] : n \in 0..MaxTextLen}

\* The steps of the application's first thread
MainStep ==
  \/ NewClientCall
  \/ NewClientReturn
  \/ FireCall("main")
  \/ FireExchange("main")
  \/ FireReturn("main")
  \/ Lock("main")
  \/ DialNew("main")
  \/ Handshake("main")
  \/ CloseOld("main")
  \/ Install("main")
  \/ Close

Network == \E k \in 1..Len(conns) : Sever(k)

\* The application's second thread, which calls Fire
SecondStep ==
  \/ FireCall("t2")
  \/ FireExchange("t2")
  \/ FireReturn("t2")
  \/ Lock("t2")
  \/ DialNew("t2")
  \/ Handshake("t2")
  \/ CloseOld("t2")
  \/ Install("t2")

WatchStep ==
  \/ WatchChCall
  \/ WatchChHandshake
  \/ \E p \in Tasks :
       \/ WatchEvalConn(p)
       \/ WatchRead(p)
       \/ Lock(p)
       \/ DialNew(p)
       \/ Handshake(p)
       \/ CloseOld(p)
       \/ Install(p)
       \/ WatchEvalCh(p)
       \/ WatchSend(p)
  \/ \E k \in 1..Len(conns) : ServerPush(k)

\* One thread using the Client: no watch, no second thread
NextSeq == MainStep \/ Network
SpecSeq == Init /\ [][NextSeq]_vars

\* One application thread and the watch goroutines
Next == MainStep \/ WatchStep \/ Network
Spec == Init /\ [][Next]_vars

\* Two application threads calling Fire, no watch
NextTwo == MainStep \/ SecondStep \/ Network
SpecTwo == Init /\ [][NextTwo]_vars

\* FireString on every text up to MaxTextLen, with a healthy network
NextFS ==
  \/ NewClientCall
  \/ NewClientReturn
  \/ FireStringCall("main", Texts)
  \/ FireExchange("main")
  \/ FireReturn("main")
SpecFS == Init /\ [][NextFS]_vars

----------------------------------------------------------------------------
\* Properties

\* The application's Fire call of thread p is returning
Returning(p) == created /\ pc[p] = "ret" /\ call[p].active

\* C1: the identity of a Client never changes after creation: in every state
\* the Client the application holds has the identity it was returned with.
C1_IdentityStable == created => c.id = hist.id0

\* During the call of p the network was healthy: every dial succeeded, every
\* handshake was accepted, and no connection opened during the call is broken.
HealthyDuring(p) ==
  /\ ~call[p].dialFailed
  /\ ~call[p].hsFailed
  /\ \A k \in (call[p].n0 + 1)..Len(conns) : conns[k].net = "ok"

\* C2: a sequential Fire whose connection yields end-of-stream, with a healthy
\* server reachable, returns the server's Result for the command, having
\* opened exactly one connection and performed exactly one handshake.
C2_TransparentRecovery ==
  (Returning("main") /\ call["main"].first = ERR(EOFText) /\ HealthyDuring("main"))
    => /\ result["main"] \in ServerReplies(cmd["main"])
       /\ Len(conns) = call["main"].n0 + 1
       /\ call["main"].hsDone = 1
       /\ Len(conns[Len(conns)].hs) = 1

C2_Witness ==
  /\ Returning("main") /\ call["main"].first = ERR(EOFText) /\ HealthyDuring("main")
  /\ result["main"] = OK(<<"OK">>)

\* A message that is neither the end-of-stream text nor contains the
\* broken-pipe text
Unrelated(msg) == msg # EOFText /\ ~Contains(msg, EPIPEText)

\* C3: a Fire whose Result is an ERR with an unrelated message returns that
\* Result, opens no connection, performs no handshake and leaves the Client
\* (connection and identity) unchanged: for the call as a whole when its first
\* exchange gives that Result, and from the exchange on when a retry gives it.
C3_NoReconnectOnOtherErr ==
  /\ (Returning("main") /\ call["main"].first.Status = "ERR"
        /\ Unrelated(call["main"].first.Message))
       => /\ result["main"] = call["main"].first
          /\ c = call["main"].pre
          /\ Len(conns) = call["main"].n0
          /\ call["main"].hsDone = 0
  /\ (Returning("main") /\ result["main"].Status = "ERR"
        /\ Unrelated(result["main"].Message))
       => /\ c = call["main"].cAt
          /\ Len(conns) = call["main"].nAt

C3_Witness ==
  /\ Returning("main")
  /\ call["main"].first = ERR(UnexpectedEOFText)

\* C4: when the reconnect of a Fire fails (the dial fails, or the handshake on
\* the new connection fails with a server ERR or a transport fault), Fire
\* returns the ERR Result of the fault and attempts no further reconnect.
C4_FailedReconnectReturns ==
  \A p \in App :
    (created /\ call[p].active /\ (call[p].dialFailed \/ call[p].hsFailed))
      => /\ pc[p] = "ret"
         /\ result[p].Status = "ERR"
         /\ ~Unrelated(result[p].Message)

\* C5: any two successful WatchCh calls return the same queue handle, and at
\* most one watch connection is ever opened for the Client.
C5_WatchOnce ==
  /\ Cardinality(hist.watchRets) <= 1
  /\ Cardinality({k \in 1..Len(conns) : conns[k].dialedFor = "watch"}) <= 1

IsPrefix(s, t) == Len(s) <= Len(t) /\ s = SubSeq(t, 1, Len(s))

\* The Results read so far from the watch connection opened for channel ch
ReceivedFor(ch) ==
  IF \E k \in 1..Len(conns) : conns[k].ch = ch
  THEN conns[CHOOSE k \in 1..Len(conns) : conns[k].ch = ch].rd
  ELSE <<>>

\* C6: the consumer of a Watch Queue receives exactly the Results read from
\* its watch connection, in the order they were read: nothing reordered,
\* duplicated, skipped or added, and no Result that was read is held by a
\* goroutine that can never deliver it.
C6_OrderPreserved ==
  /\ \A ch \in 1..MaxChans : IsPrefix(hist.delivered[ch], ReceivedFor(ch))
  /\ \A p \in Tasks : pc[p] = "blocked" => result[p].Status # "OK"

C8_NeverSilent ==
  \A p \in Tasks : pc[p] \in {"blocked", "relock"} => panicked

\* C9: after Close() the command connection of the Client stays closed: no
\* later step installs an open command connection.
C9_StaysClosed == hist.closed => ~conns[c.conn].open

\* strings.Fields: the whitespace-separated tokens of s
RECURSIVE Fields(_)
Fields(s) ==
  LET t == TrimLeft(s)
  IN IF t = <<>> THEN <<>>
     ELSE LET n == IF \E j \in 1..Len(t) : IsSpace(t[j])
                   THEN (CHOOSE j \in 1..Len(t) :
                           IsSpace(t[j]) /\ \A m \in 1..(j - 1) : ~IsSpace(t[m])) - 1
                   ELSE Len(t)
          IN <<SubSeq(t, 1, n)>> \o Fields(SubSeq(t, n + 1, Len(t)))

\* C10: FireString(text) fires the Command whose name is the first
\* whitespace-separated token of text and whose arguments are the remaining
\* tokens in order; no argument is an empty string.
C10_FireStringTokens ==
  (created /\ call["main"].active /\ Fields(call["main"].text) # <<>>)
    => /\ cmd["main"].Cmd = Head(Fields(call["main"].text))
       /\ cmd["main"].Args = Tail(Fields(call["main"].text))
       /\ \A i \in 1..Len(cmd["main"].Args) : cmd["main"].Args[i] # EmptyStr

\* Connection k has been handshaken for role: the last HANDSHAKE the server
\* received on it carried that role and was accepted
HandshakenAs(k, role) ==
  /\ k # Nil
  /\ conns[k].hs # <<>>
  /\ conns[k].hs[Len(conns[k].hs)].args[2] = <<role>>
  /\ conns[k].hs[Len(conns[k].hs)].status = "OK"

\* The watch goroutine p has come out of a successful reconnect: its receive
\* failed and checkAndReconnect returned true
WatchReconnected(p) ==
  pc[p] \in {"evalch", "push", "blocked"} /\ result[p].Status = "ERR"

\* C11: when a receive of the watch goroutine fails with a recoverable fault
\* and the reconnect succeeds, the Client's watch connection is a new
\* connection handshaken with role "watch", and the goroutine goes on pushing
\* onto the Watch Queue that WatchCh returned.
C11_WatchReconnect ==
  \A p \in Tasks :
    WatchReconnected(p)
      => /\ c.watchConn # wloc[p].conn
         /\ HandshakenAs(c.watchConn, "watch")
         /\ c.watchCh \in hist.watchRets
         /\ pc[p] # "blocked"

\* C12: a reconnect of the command channel by Fire leaves the Client's
\* established watch connection and Watch Queue unchanged: the step in which a
\* Fire installs the reconnected Client changes neither c.watchConn nor
\* c.watchCh.
C12_FireReconnectKeepsWatch ==
  [][\A p \in App :
       (created /\ pc[p] = "install" /\ pc'[p] = "fire"
          /\ HandshakenAs(c.watchConn, "watch") /\ c.watchCh \in hist.watchRets)
         => /\ c'.watchConn = c.watchConn
            /\ c'.watchCh = c.watchCh]_vars

\* A thread is inside a reconnect: between getOrCreateClient's NewClient and
\* the *c = *nc of checkAndReconnect
Reconnecting == \E p \in Procs : pc[p] \in {"hs", "relock", "closeold", "install"}

\* The open connections that were handshaken for role
OpenFor(role) == {k \in 1..Len(conns) : conns[k].open /\ HandshakenAs(k, role)}

\* C13: a Client has at most one open connection per channel role (outside a
\* reconnect, which holds the replacement before it is installed), and when a
\* reconnect installs the replacement the connection it supersedes is closed.
C13_OnePerRole ==
  /\ (created /\ ~Reconnecting)
       => /\ Cardinality(OpenFor("command")) <= 1
          /\ Cardinality(OpenFor("watch")) <= 1
  /\ \A p \in Procs :
       (created /\ pc[p] = "install") => (c.conn = Nil \/ ~conns[c.conn].open)

\* The first exchange of the Fire call of p hit a recoverable fault
FirstRecoverable(p) ==
  /\ call[p].active
  /\ call[p].first.Status = "ERR"
  /\ Recoverable(call[p].first.Message)

\* C14: when two threads run Fire on the Client and both observe a
\* recoverable fault on the same degraded connection (the only one the
\* network has broken), and no dial or handshake of a reconnect fails, at most
\* one new connection is opened for that fault.
C14_SingleReconnect ==
  \A k \in 1..Len(conns) :
    (created /\ Faults = 1 /\ conns[k].net # "ok"
       /\ FirstRecoverable("main") /\ FirstRecoverable("t2")
       /\ HealthyDuring("main") /\ HealthyDuring("t2"))
      => Len(conns) <= k + 1

\* C15: during a reconnect the old connection is closed and the new Client
\* state is installed while the reconnecting thread holds the lock, and only
\* after the new connection has completed its handshake; the lock is no
\* longer held when the thread retries or returns.
C15_InstallUnderLock ==
  \A p \in Procs :
    /\ (created /\ pc[p] \in {"closeold", "install"})
         => (mu = p /\ HandshakenAs(nc[p].conn, "command"))
    /\ (created /\ pc[p] \in {"fire", "ret", "evalch"}) => mu # p

\* A HANDSHAKE on connection k has returned a non-ERR Result
HandshakeAccepted(k) ==
  /\ k # Nil
  /\ \E i \in 1..Len(conns[k].hs) : conns[k].hs[i].status = "OK"

\* C16: the connection an application command is about to be sent on, and
\* the connection the watch goroutine receives from, have completed their
\* handshake: a HANDSHAKE on them has returned a non-ERR Result.
C16_HandshakeFirst ==
  /\ \A p \in App : (created /\ pc[p] = "fire") => HandshakeAccepted(c.conn)
  /\ \A p \in Tasks : pc[p] = "read" => HandshakeAccepted(wloc[p].conn)

\* C17: the lock is never requested by the thread that holds it: no thread
\* is in mu.Lock() while it is the holder of mu, where it would block for
\* ever and its Fire call would not return.
C17_NoRelock ==
  \A p \in Procs : created => ~(mu = p /\ pc[p] \in {"lock", "relock"})

\* C18: every connection is sent at most one HANDSHAKE, and the HANDSHAKE
\* sent on a connection of the Client the application holds carried the
\* identity that Client has.
C18_OneHandshake ==
  /\ \A k \in 1..Len(conns) : Len(conns[k].hs) <= 1
  /\ created =>
       \A k \in {c.conn, c.watchConn} \ {Nil} :
         \A i \in 1..Len(conns[k].hs) : conns[k].hs[i].args[1] = c.id

\* C19: a WatchCh call that failed leaves no Watch Queue in the Client, and
\* every queue handle WatchCh has returned with no error belongs to a watch
\* connection whose handshake was accepted, with a goroutine started.
C19_FailedWatchChLeavesNothing ==
  /\ (created /\ pc["main"] = "idle" /\ c.watchCh # Nil)
       => c.watchCh \in hist.watchRets
  /\ \A ch \in hist.watchRets :
       /\ \E k \in 1..Len(conns) : conns[k].ch = ch /\ HandshakeAccepted(k)
       /\ \E p \in Tasks : pc[p] # "off"

\* No call that handshakes a connection is in progress: NewClient and WatchCh
\* have returned, and no thread is inside Fire or a reconnect
NoCallInProgress ==
  /\ \A p \in App : pc[p] \in {"idle", "newret", "failed"}
  /\ \A p \in Tasks : pc[p] \in {"off", "evalconn", "read", "evalch", "push", "blocked"}

\* C20: no connection is leaked on a failed handshake: once the call that
\* opened a connection has returned, the connection is closed unless the
\* HANDSHAKE on it was accepted.
C20_NoLeak ==
  \A k \in 1..Len(conns) :
    (NoCallInProgress /\ conns[k].open) => HandshakenAs(k, conns[k].dialedFor)

====
